---- MODULE Spec2Model ----
(***************************************************************************)
(* Model of client/consensus/manual-seal/src/consensus/babe.rs:            *)
(* the mocked slot clock (SlotTimestampProvider) and the BABE consensus    *)
(* data provider (BabeConsensusDataProvider) of the manual-seal engine.    *)
(***************************************************************************)
EXTENDS Integers, Sequences, FiniteSets, TLC

(***************************************************************************)
(* Bounds of the model.                                                    *)
(***************************************************************************)
\* the counter is an AtomicU64: Modulus stands for 2^64, scaled down
Modulus == 8
\* the clock starts at a wall-clock reading in 0..MaxStart
MaxStart == 1
\* Config.slot_duration ranges over 0..MaxDuration
MaxDuration == 4
\* number of provide_inherent_data calls in one behaviour
MaxCalls == 3
\* Config.epoch_length: the slots of one epoch
EpochLength == 1

Threads == {1, 2}

(***************************************************************************)
(* Option values.                                                          *)
(***************************************************************************)
None == <<>>
Some(v) == <<v>>
IsSome(o) == o # <<>>
Unwrap(o) == o[1]

(***************************************************************************)
(* The program's state.                                                    *)
(***************************************************************************)
VARIABLES
    time,            \* SlotTimestampProvider.time, the AtomicU64
    slot_duration,   \* SlotTimestampProvider.slot_duration (= Config.slot_duration)
    start_time,      \* the value `time` was constructed with
    pc,              \* per thread: position inside an inherent collection
    duration,        \* per thread: the local `duration` of provide_inherent_data
    ticket,          \* per thread: index in `calls` of the call in progress
    inherent_data,   \* per thread: the InherentData being filled
    calls,           \* history: one record per fetch_add, in the order of the atomic steps
    overlap,         \* history: some call began while another was inside provide_inherent_data
    config,          \* BabeConsensusDataProvider.config
    keystore,        \* BabeConsensusDataProvider.keystore: the public keys held locally
    epoch_changes,   \* BabeConsensusDataProvider.epoch_changes: the shared epoch tree
    digest,          \* the latest create_digest call: its arguments and what it returned
    import,          \* the latest append_block_import call after it: arguments, params before and after
    lock,            \* the holder of the lock of the SharedEpochChanges
    call,            \* the driver's position inside a create_digest or append_block_import call
    registry,        \* InherentDataProviders: the providers registered, in order
    construction     \* BabeConsensusDataProvider::new: its position and what it returned

clock_vars == <<time, slot_duration, start_time, pc, duration, ticket, inherent_data, calls, overlap>>
lock_vars == <<lock, call>>
new_vars == <<registry, construction>>
provider_vars == <<config, keystore, epoch_changes, digest, import, lock, call, registry, construction>>
vars == <<time, slot_duration, start_time, pc, duration, ticket, inherent_data, calls, overlap,
          config, keystore, epoch_changes, digest, import, lock, call, registry, construction>>

\* InherentData::new(): no data under any identifier
EmptyInherentData == [timestamp |-> None, babeslot |-> None]

\* u64 wrapping addition, as AtomicU64::fetch_add performs it
WrappingAdd(a, b) == (a + b) % Modulus

\* AtomicU64::fetch_add(val): one atomic step returning the previous value
fetch_add_post(cur, val) == [ret |-> WrappingAdd(cur, val), new |-> WrappingAdd(cur, val)]
fetch_add_unit(cur, val) == [ret |-> cur, new |-> WrappingAdd(cur, 1)]
fetch_add(cur, val) == [ret |-> cur, new |-> WrappingAdd(cur, val)]

\* InherentData::put_data: inserts under a vacant identifier, fails under an occupied one
put_data(data, value) ==
    IF IsSome(data.timestamp)
    THEN [ok |-> FALSE, data |-> data]
    ELSE [ok |-> TRUE, data |-> [data EXCEPT !.timestamp = Some(value)]]

\* the BABE slot inherent registered at construction: slot = timestamp / slot_duration
SlotOf(timestamp, d) == timestamp \div d

\* SlotTimestampProvider::new(slot_duration): time = now, in milliseconds
ClockInit ==
    /\ start_time \in 0..MaxStart
    /\ slot_duration \in 0..MaxDuration
    /\ time = start_time
    /\ pc = [t \in Threads |-> "idle"]
    /\ duration = [t \in Threads |-> 0]
    /\ ticket = [t \in Threads |-> 0]
    /\ inherent_data = [t \in Threads |-> EmptyInherentData]
    /\ calls = <<>>
    /\ overlap = FALSE

\* a load and a store in place of the fetch_add: a thread that loads while another
\* call is between its own load and store sees the value that call saw
FetchAddRacy(t) ==
    /\ pc[t] = "idle"
    /\ Len(calls) < MaxCalls
    /\ LET stale == {duration[u] : u \in {v \in Threads \ {t} : pc[v] = "fetched"}}
           r == fetch_add(IF stale = {} THEN time ELSE CHOOSE x \in stale : TRUE, slot_duration)
       IN  /\ time' = r.new
           /\ duration' = [duration EXCEPT ![t] = r.ret]
           /\ calls' = Append(calls, [ret |-> r.ret, written |-> None, slot |-> None])
    /\ ticket' = [ticket EXCEPT ![t] = Len(calls) + 1]
    /\ inherent_data' = [inherent_data EXCEPT ![t] = EmptyInherentData]
    /\ overlap' = (overlap \/ \E u \in Threads \ {t} : pc[u] = "fetched")
    /\ pc' = [pc EXCEPT ![t] = "fetched"]
    /\ UNCHANGED <<slot_duration, start_time>>

\* provide_inherent_data, first statement: `self.time.fetch_add(self.slot_duration, SeqCst)`
\* on the fresh InherentData of this collection
FetchAdd(t) ==
    /\ pc[t] = "idle"
    /\ Len(calls) < MaxCalls
    /\ LET r == fetch_add(time, slot_duration) IN
        /\ time' = r.new
        /\ duration' = [duration EXCEPT ![t] = r.ret]
        /\ calls' = Append(calls, [ret |-> r.ret, written |-> None, slot |-> None])
    /\ ticket' = [ticket EXCEPT ![t] = Len(calls) + 1]
    /\ inherent_data' = [inherent_data EXCEPT ![t] = EmptyInherentData]
    /\ overlap' = (overlap \/ \E u \in Threads \ {t} : pc[u] = "fetched")
    /\ pc' = [pc EXCEPT ![t] = "fetched"]
    /\ UNCHANGED <<slot_duration, start_time>>

\* provide_inherent_data, second statement: `inherent_data.put_data(INHERENT_IDENTIFIER, &duration)?`
PutData(t) ==
    /\ pc[t] = "fetched"
    /\ LET r == put_data(inherent_data[t], duration[t]) IN
        /\ inherent_data' = [inherent_data EXCEPT ![t] = r.data]
        /\ calls' = [calls EXCEPT ![ticket[t]].written = IF r.ok THEN Some(duration[t]) ELSE None]
        /\ pc' = [pc EXCEPT ![t] = IF r.ok THEN "timestamped" ELSE "idle"]
    /\ UNCHANGED <<time, slot_duration, start_time, duration, ticket, overlap>>

\* the slot inherent provider runs after the clock in the same collection;
\* a zero slot duration makes its division panic
BabeProvide(t) ==
    /\ pc[t] = "timestamped"
    /\ IF slot_duration = 0
       THEN /\ pc' = [pc EXCEPT ![t] = "panicked"]
            /\ UNCHANGED <<inherent_data, calls>>
       ELSE LET s == SlotOf(Unwrap(inherent_data[t].timestamp), slot_duration) IN
            /\ inherent_data' = [inherent_data EXCEPT ![t].babeslot = Some(s)]
            /\ calls' = [calls EXCEPT ![ticket[t]].slot = Some(s)]
            /\ pc' = [pc EXCEPT ![t] = "idle"]
    /\ UNCHANGED <<time, slot_duration, start_time, duration, ticket, overlap>>

(***************************************************************************)
(* The consensus data provider and its collaborators.                      *)
(***************************************************************************)
\* sp_keyring::Sr25519Keyring::Alice and the weight the fallback gives it
Alice == "Alice"
FallbackWeight == 1000
\* authority_index of the fallback predigest
FallbackAuthorityIndex == 0
BABE_ENGINE_ID == "BABE"

\* the thread of the block-building driver
Driver == CHOOSE t \in Threads : \A u \in Threads : t <= u

\* parent headers handed to the provider: genesis, two imported blocks of the
\* chain (hash = number), and a header the client does not know
GenesisHeader == [hash |-> 0, number |-> 0]
Headers == {GenesisHeader, [hash |-> 1, number |-> 1], [hash |-> 2, number |-> 2],
            [hash |-> 7, number |-> 1]}
KnownHashes == {0, 1, 2}

\* authority sets and keystores the node may be run with
AuthoritySets == {<<[id |-> "Alice", weight |-> 1]>>,
                  <<[id |-> "Bob", weight |-> 1], [id |-> "Alice", weight |-> 1]>>}
Keystores == {{"Alice"}, {"Bob"}}

\* codec::Encode: the SCALE bytes of a value, and their decoding
Encode(v) == [scale |-> v]
Decode(bytes) == bytes.scale

\* Epoch::genesis(&config, slot): epoch zero, synthesized from Config
EpochGenesis(cfg, slot) ==
    [epoch_index |-> 0, start_slot |-> slot,
     authorities |-> cfg.genesis_authorities, randomness |-> cfg.randomness]

\* ViableEpochDescriptor
UnimportedGenesis(slot) ==
    [kind |-> "UnimportedGenesis", slot |-> slot, position |-> "none", hash |-> 0, number |-> 0]
Signaled(position, node) ==
    [kind |-> "Signaled", slot |-> node.start_slot, position |-> position,
     hash |-> node.hash, number |-> node.number]

\* the states of the shared epoch tree: empty; the genesis epochs 0 and 1 signalled
\* at block 1; a further epoch signalled at block 2; headers whose epochs are gone
GenesisNode == [hash |-> 1, number |-> 1, kind |-> "Genesis", start_slot |-> 1, start_slot_1 |-> 2]
RegularNode == [hash |-> 2, number |-> 2, kind |-> "Regular", start_slot |-> 2, start_slot_1 |-> 2]
GenesisEpochs(cfg) ==
    {[position |-> "Genesis0", hash |-> 1, number |-> 1,
      epoch |-> [epoch_index |-> 0, start_slot |-> 1,
                 authorities |-> cfg.genesis_authorities, randomness |-> cfg.randomness]],
     [position |-> "Genesis1", hash |-> 1, number |-> 1,
      epoch |-> [epoch_index |-> 1, start_slot |-> 2,
                 authorities |-> <<[id |-> "Bob", weight |-> 1]>>, randomness |-> 2]]}
RegularEpochs ==
    {[position |-> "Regular", hash |-> 2, number |-> 2,
      epoch |-> [epoch_index |-> 2, start_slot |-> 2,
                 authorities |-> <<[id |-> Alice, weight |-> FallbackWeight]>>, randomness |-> 3]]}
EpochTrees(cfg) ==
    {[inner |-> {}, epochs |-> {}],
     [inner |-> {GenesisNode}, epochs |-> GenesisEpochs(cfg)],
     [inner |-> {GenesisNode, RegularNode}, epochs |-> GenesisEpochs(cfg) \cup RegularEpochs],
     [inner |-> {GenesisNode}, epochs |-> {}]}

\* InherentData whose slot entry does not decode
MalformedSlot == <<0, 0>>
MalformedInherentData == [timestamp |-> None, babeslot |-> MalformedSlot]

\* BabeInherentData::babe_inherent_data: the slot number, or an error when the
\* entry is absent or does not decode
babe_inherent_data(inherents) ==
    IF Len(inherents.babeslot) = 1
    THEN [ok |-> TRUE, slot_number |-> inherents.babeslot[1]]
    ELSE [ok |-> FALSE, slot_number |-> 0]

\* EpochChanges::epoch_descriptor_for_child_of with descendent_query(client):
\* Err | Ok(None) | Ok(Some(descriptor))
epoch_descriptor_for_child_of(tree, parent_hash, parent_number, slot_number) ==
    LET found == {n \in tree.inner : n.number <= parent_number /\ n.start_slot <= slot_number}
        deepest == CHOOSE n \in found : \A m \in found : m.number <= n.number
    IN  IF parent_number = 0
        THEN [status |-> "Some", descriptor |-> Some(UnimportedGenesis(slot_number))]
        ELSE IF tree.inner = {}
        THEN [status |-> "None", descriptor |-> None]
        ELSE IF parent_hash \notin KnownHashes
        THEN [status |-> "Err", descriptor |-> None]
        ELSE IF found = {}
        THEN [status |-> "None", descriptor |-> None]
        ELSE [status |-> "Some",
              descriptor |-> Some(Signaled(
                  IF deepest.kind = "Regular" THEN "Regular"
                  ELSE IF deepest.start_slot_1 <= slot_number THEN "Genesis1" ELSE "Genesis0",
                  deepest))]

\* EpochChanges::viable_epoch(descriptor, make_genesis)
viable_epoch(tree, cfg, descriptor) ==
    IF descriptor.kind = "UnimportedGenesis"
    THEN Some(EpochGenesis(cfg, descriptor.slot))
    ELSE LET hit == {e \in tree.epochs : /\ e.position = descriptor.position
                                         /\ e.hash = descriptor.hash
                                         /\ e.number = descriptor.number}
         IN  IF hit = {} THEN None ELSE Some((CHOOSE e \in hit : TRUE).epoch)

\* authorship::claim_slot(slot_number, epoch, keystore): the epoch's randomness and the
\* slot number pick the slot's author; the claim succeeds when the keystore holds its key
claim_slot(slot_number, epoch, keys) ==
    LET n == Len(epoch.authorities)
        index == (epoch.randomness + slot_number) % n
    IN  IF n = 0 THEN None
        ELSE IF epoch.authorities[index + 1].id \in keys
        THEN Some([variant |-> "Claimed", slot_number |-> slot_number, authority_index |-> index])
        ELSE None

\* the predigest made for the slot after the one in the inherents
fallback_predigest_next_slot(slot_number) ==
    [variant |-> "SecondaryPlain", slot_number |-> slot_number + 1,
     authority_index |-> FallbackAuthorityIndex]

\* create_digest, the `else` branch: the SecondaryPlain predigest of the fallback
fallback_predigest(slot_number) ==
    [variant |-> "SecondaryPlain", slot_number |-> slot_number,
     authority_index |-> FallbackAuthorityIndex]

\* the randomness taken from Config in place of the current epoch
fallback_next_epoch_genesis(epoch) ==
    [variant |-> "NextEpochData",
     authorities |-> <<[id |-> Alice, weight |-> FallbackWeight]>>,
     randomness |-> config.randomness]

\* create_digest, the `else` branch: NextEpochData naming Alice, with the old randomness
fallback_next_epoch(epoch) ==
    [variant |-> "NextEpochData",
     authorities |-> <<[id |-> Alice, weight |-> FallbackWeight]>>,
     randomness |-> epoch.randomness]

\* the fallback without its epoch announcement
digest_logs_no_announce(slot_number, epoch, claim) ==
    IF IsSome(claim)
    THEN <<[item |-> "PreRuntime", engine |-> BABE_ENGINE_ID, data |-> Encode(Unwrap(claim))]>>
    ELSE <<[item |-> "PreRuntime", engine |-> BABE_ENGINE_ID,
            data |-> Encode(fallback_predigest(slot_number))]>>

\* create_digest: the logs, from the outcome of claim_slot
digest_logs(slot_number, epoch, claim) ==
    IF IsSome(claim)
    THEN <<[item |-> "PreRuntime", engine |-> BABE_ENGINE_ID, data |-> Encode(Unwrap(claim))]>>
    ELSE <<[item |-> "PreRuntime", engine |-> BABE_ENGINE_ID,
            data |-> Encode(fallback_predigest(slot_number))],
           [item |-> "Consensus", engine |-> BABE_ENGINE_ID,
            data |-> Encode(fallback_next_epoch(epoch))]>>

\* what a call that returned Err leaves behind: no digest
DigestErr(error, slot, descriptor) ==
    [status |-> error, logs |-> <<>>, slot_number |-> slot,
     descriptor |-> descriptor, epoch |-> None, claim |-> None]

\* the error reported for the other outcome of the lookup
lookup_error_swapped(status) ==
    IF status = "Err" THEN "InvalidAuthoritiesSet" ELSE "StringError"

\* `.map_err(|e| Error::StringError(..))?.ok_or_else(|| InvalidAuthoritiesSet)?`:
\* the error a lookup that gave no descriptor is turned into
lookup_error(status) ==
    IF status = "Err" THEN "StringError" ELSE "InvalidAuthoritiesSet"

\* the genesis closure left out: an unimported genesis resolves to nothing
resolve_epoch_tree_only(tree, cfg, descriptor) ==
    IF descriptor.kind = "UnimportedGenesis" THEN None ELSE viable_epoch(tree, cfg, descriptor)

\* a missing epoch recovered from by synthesizing epoch zero
resolve_epoch_or_genesis(tree, cfg, descriptor) ==
    IF IsSome(viable_epoch(tree, cfg, descriptor))
    THEN viable_epoch(tree, cfg, descriptor)
    ELSE Some(EpochGenesis(cfg, descriptor.slot))

\* create_digest: `epoch_changes.viable_epoch(&epoch_descriptor, |slot| Epoch::genesis(&self.config, slot))`
resolve_epoch(tree, cfg, descriptor) == viable_epoch(tree, cfg, descriptor)

\* create_digest(parent, inherents) -> Result<Digest, Error>, with the values it
\* computed on the way
create_digest_result(tree, cfg, keys, parent, inherents) ==
    LET slot == babe_inherent_data(inherents)
        found == epoch_descriptor_for_child_of(tree, parent.hash, parent.number, slot.slot_number)
        epoch == resolve_epoch(tree, cfg, Unwrap(found.descriptor))
        claim == claim_slot(slot.slot_number, Unwrap(epoch), keys)
    IN  IF ~slot.ok THEN DigestErr("InherentData", None, None)
        ELSE IF found.status # "Some"
        THEN DigestErr(lookup_error(found.status), Some(slot.slot_number), None)
        ELSE IF ~IsSome(epoch)
        THEN DigestErr("InvalidAuthoritiesSet", Some(slot.slot_number), found.descriptor)
        ELSE [status |-> "Ok",
              logs |-> digest_logs(slot.slot_number, Unwrap(epoch), claim),
              slot_number |-> Some(slot.slot_number),
              descriptor |-> found.descriptor,
              epoch |-> epoch,
              claim |-> claim]

\* BlockImportParams.intermediates: the entry under INTERMEDIATE_KEY and another entry
EmptyIntermediates == [babe_intermediate |-> None, other |-> None]
Intermediates == {EmptyIntermediates,
                  [babe_intermediate |-> Some(UnimportedGenesis(0)), other |-> Some(5)]}

\* the map replaced by one holding the new entry alone
insert_intermediate_fresh(intermediates, descriptor) ==
    [EmptyIntermediates EXCEPT !.babe_intermediate = Some(descriptor)]

\* `params.intermediates.insert(Cow::from(INTERMEDIATE_KEY), Box::new(BabeIntermediate { epoch_descriptor }))`
insert_intermediate(intermediates, descriptor) ==
    [intermediates EXCEPT !.babe_intermediate = Some(descriptor)]

\* the lookup made for the slot after the one in the inherents
append_block_import_result_next_slot(tree, parent, intermediates, inherents) ==
    LET slot == babe_inherent_data(inherents)
        found == epoch_descriptor_for_child_of(tree, parent.hash, parent.number, slot.slot_number + 1)
    IN  IF ~slot.ok
        THEN [status |-> "InherentData", intermediates |-> intermediates,
              slot_number |-> None, descriptor |-> None]
        ELSE IF found.status # "Some"
        THEN [status |-> lookup_error(found.status), intermediates |-> intermediates,
              slot_number |-> Some(slot.slot_number), descriptor |-> None]
        ELSE [status |-> "Ok",
              intermediates |-> insert_intermediate(intermediates, Unwrap(found.descriptor)),
              slot_number |-> Some(slot.slot_number), descriptor |-> found.descriptor]

\* the descriptor resolved to its epoch before it is attached, as create_digest does
append_block_import_result_resolved(tree, parent, intermediates, inherents) ==
    LET slot == babe_inherent_data(inherents)
        found == epoch_descriptor_for_child_of(tree, parent.hash, parent.number, slot.slot_number)
    IN  IF ~slot.ok
        THEN [status |-> "InherentData", intermediates |-> intermediates,
              slot_number |-> None, descriptor |-> None]
        ELSE IF found.status # "Some"
        THEN [status |-> lookup_error(found.status), intermediates |-> intermediates,
              slot_number |-> Some(slot.slot_number), descriptor |-> None]
        ELSE IF ~IsSome(viable_epoch(tree, [randomness |-> 0, genesis_authorities |-> <<>>],
                                     Unwrap(found.descriptor)))
        THEN [status |-> "InvalidAuthoritiesSet", intermediates |-> intermediates,
              slot_number |-> Some(slot.slot_number), descriptor |-> found.descriptor]
        ELSE [status |-> "Ok",
              intermediates |-> insert_intermediate(intermediates, Unwrap(found.descriptor)),
              slot_number |-> Some(slot.slot_number), descriptor |-> found.descriptor]

\* the lookup made in the tree create_digest saw
append_block_import_result_snapshot(tree, parent, intermediates, inherents) ==
    LET slot == babe_inherent_data(inherents)
        seen == IF digest.called THEN digest.epoch_changes ELSE tree
        found == epoch_descriptor_for_child_of(seen, parent.hash, parent.number, slot.slot_number)
    IN  IF ~slot.ok
        THEN [status |-> "InherentData", intermediates |-> intermediates,
              slot_number |-> None, descriptor |-> None]
        ELSE IF found.status # "Some"
        THEN [status |-> lookup_error(found.status), intermediates |-> intermediates,
              slot_number |-> Some(slot.slot_number), descriptor |-> None]
        ELSE [status |-> "Ok",
              intermediates |-> insert_intermediate(intermediates, Unwrap(found.descriptor)),
              slot_number |-> Some(slot.slot_number), descriptor |-> found.descriptor]

\* append_block_import(parent, params, inherents) -> Result<(), Error>, with the
\* intermediates it leaves
append_block_import_result(tree, parent, intermediates, inherents) ==
    LET slot == babe_inherent_data(inherents)
        found == epoch_descriptor_for_child_of(tree, parent.hash, parent.number, slot.slot_number)
    IN  IF ~slot.ok
        THEN [status |-> "InherentData", intermediates |-> intermediates,
              slot_number |-> None, descriptor |-> None]
        ELSE IF found.status # "Some"
        THEN [status |-> lookup_error(found.status), intermediates |-> intermediates,
              slot_number |-> Some(slot.slot_number), descriptor |-> None]
        ELSE [status |-> "Ok",
              intermediates |-> insert_intermediate(intermediates, Unwrap(found.descriptor)),
              slot_number |-> Some(slot.slot_number), descriptor |-> found.descriptor]

NotCalled == [called |-> FALSE]

\* the driver is inside no call of the provider
NoCall == [op |-> "none", at |-> "returned", acquired |-> 0, status |-> "none"]

\* the identifiers of the two inherent data providers `new` registers
TIMESTAMP_IDENTIFIER == "timstap0"
BABE_IDENTIFIER == "babeslot"

\* `new` returned Ok(Self): both providers are registered, the lock is free
Constructed ==
    /\ lock = "free"
    /\ call = NoCall
    /\ registry = <<[id |-> TIMESTAMP_IDENTIFIER, by |-> "new"],
                    [id |-> BABE_IDENTIFIER, by |-> "new"]>>
    /\ construction = [at |-> "returned", fetched |-> TRUE, result |-> "Ok"]

\* the inherent data the driver passes on: what it collected, or data without a
\* usable slot entry
InherentChoices == {inherent_data[Driver], EmptyInherentData, MalformedInherentData}

\* a call of create_digest by the driver
create_digest(parent, inherents) ==
    /\ pc[Driver] = "idle"
    /\ digest' = [called |-> TRUE, parent |-> parent, inherents |-> inherents,
                  epoch_changes |-> epoch_changes,
                  result |-> create_digest_result(epoch_changes, config, keystore, parent, inherents)]
    /\ import' = NotCalled
    /\ UNCHANGED <<config, keystore, epoch_changes>>
    /\ UNCHANGED <<lock_vars, new_vars>>
    /\ UNCHANGED clock_vars

\* a call of append_block_import by the driver, for the block create_digest was called for
append_block_import(parent, intermediates, inherents) ==
    /\ pc[Driver] = "idle"
    /\ digest.called
    /\ parent = digest.parent
    /\ import' = [called |-> TRUE, parent |-> parent, inherents |-> inherents,
                  epoch_changes |-> epoch_changes, before |-> intermediates,
                  result |-> append_block_import_result(epoch_changes, parent, intermediates, inherents)]
    /\ UNCHANGED <<config, keystore, epoch_changes, digest>>
    /\ UNCHANGED <<lock_vars, new_vars>>
    /\ UNCHANGED clock_vars

\* another holder of the epoch-tree lock (block import, pruning) changes the tree
MutateEpochChanges ==
    /\ epoch_changes' \in EpochTrees(config) \ {epoch_changes}
    /\ UNCHANGED <<config, keystore, digest, import>>
    /\ UNCHANGED <<lock_vars, new_vars>>
    /\ UNCHANGED clock_vars

\* BabeConsensusDataProvider::new: Config from the runtime, the clock built from
\* config.slot_duration, the keystore and the epoch tree as handed in
ProviderInit ==
    /\ config \in [slot_duration : {slot_duration},
                   genesis_authorities : AuthoritySets,
                   randomness : {1}]
    /\ keystore \in Keystores
    /\ epoch_changes \in EpochTrees(config)
    /\ digest = NotCalled
    /\ import = NotCalled
    /\ Constructed

Init ==
    /\ ClockInit
    /\ slot_duration \in 1..2
    /\ ProviderInit

\* the driver turns to the next block: the calls recorded are those of the block being built
NewBlock ==
    /\ digest' = NotCalled
    /\ import' = NotCalled
    /\ UNCHANGED <<config, keystore, epoch_changes>>
    /\ UNCHANGED <<lock_vars, new_vars>>

\* the driver collects the inherents of the next block, then builds and imports it
Next ==
    \/ FetchAdd(Driver) /\ NewBlock
    \/ PutData(Driver) /\ UNCHANGED provider_vars
    \/ BabeProvide(Driver) /\ UNCHANGED provider_vars
    \/ \E parent \in Headers, inherents \in InherentChoices : create_digest(parent, inherents)
    \/ \E parent \in Headers, inherents \in InherentChoices, intermediates \in Intermediates :
           append_block_import(parent, intermediates, inherents)
    \/ MutateEpochChanges

Spec == Init /\ [][Next]_vars

\* the clock alone, called from several threads
ClockOnlyInit ==
    /\ ClockInit
    /\ config = [slot_duration |-> slot_duration,
                 genesis_authorities |-> <<[id |-> "Alice", weight |-> 1]>>,
                 randomness |-> 1]
    /\ keystore = {"Alice"}
    /\ epoch_changes = [inner |-> {}, epochs |-> {}]
    /\ digest = NotCalled
    /\ import = NotCalled
    /\ Constructed

ClockNext ==
    \/ \E t \in Threads : FetchAdd(t) /\ UNCHANGED provider_vars
    \/ \E t \in Threads : PutData(t) /\ UNCHANGED provider_vars
    \/ \E t \in Threads : BabeProvide(t) /\ UNCHANGED provider_vars

SpecClock == ClockOnlyInit /\ [][ClockNext]_vars

\* Epoch::increment: the epoch after `epoch`, as a NextEpochData entry announces it
EpochIncrement(epoch, next_epoch) ==
    [epoch_index |-> epoch.epoch_index + 1,
     start_slot |-> epoch.start_slot + EpochLength,
     authorities |-> next_epoch.authorities,
     randomness |-> next_epoch.randomness]

\* the epoch tree after BabeBlockImport imported block `number` carrying `next_epoch`,
\* built under `descriptor` and `epoch`: EpochChanges::import
EpochChangesImport(tree, number, descriptor, epoch, next_epoch) ==
    IF descriptor.kind = "UnimportedGenesis"
    THEN [inner |-> tree.inner \cup
                    {[hash |-> number, number |-> number, kind |-> "Genesis",
                      start_slot |-> epoch.start_slot,
                      start_slot_1 |-> EpochIncrement(epoch, next_epoch).start_slot]},
          epochs |-> tree.epochs \cup
                    {[position |-> "Genesis0", hash |-> number, number |-> number,
                      epoch |-> epoch],
                     [position |-> "Genesis1", hash |-> number, number |-> number,
                      epoch |-> EpochIncrement(epoch, next_epoch)]}]
    ELSE [inner |-> tree.inner \cup
                    {[hash |-> number, number |-> number, kind |-> "Regular",
                      start_slot |-> EpochIncrement(epoch, next_epoch).start_slot,
                      start_slot_1 |-> EpochIncrement(epoch, next_epoch).start_slot]},
          epochs |-> tree.epochs \cup
                    {[position |-> "Regular", hash |-> number, number |-> number,
                      epoch |-> EpochIncrement(epoch, next_epoch)]}]

\* the import pipeline imports the block the driver built on the fallback path: the
\* epoch announced in its NextEpochData entry enters the tree at the new block
ImportBlock ==
    /\ pc[Driver] = "idle"
    /\ digest.called /\ digest.result.status = "Ok" /\ Len(digest.result.logs) = 2
    /\ import.called /\ import.result.status = "Ok"
    /\ import.epoch_changes = epoch_changes
    /\ digest.parent.hash \in KnownHashes
    /\ digest.parent.number + 1 \in KnownHashes
    /\ \A n \in epoch_changes.inner : n.number <= digest.parent.number
    /\ LET descriptor == Unwrap(import.result.intermediates.babe_intermediate)
           epoch == viable_epoch(epoch_changes, config, descriptor)
       IN  /\ IsSome(epoch)
           /\ epoch_changes' =
                  EpochChangesImport(epoch_changes, digest.parent.number + 1, descriptor,
                                     Unwrap(epoch), Decode(digest.result.logs[2].data))
    /\ digest' = NotCalled
    /\ import' = NotCalled
    /\ UNCHANGED <<config, keystore>>
    /\ UNCHANGED <<lock_vars, new_vars>>
    /\ UNCHANGED clock_vars

\* a new chain: the epoch tree is empty when the provider is built
ImportInit ==
    /\ Init
    /\ epoch_changes = [inner |-> {}, epochs |-> {}]

\* the driver builds blocks and the import pipeline imports them
ImportNext ==
    \/ FetchAdd(Driver) /\ NewBlock
    \/ PutData(Driver) /\ UNCHANGED provider_vars
    \/ BabeProvide(Driver) /\ UNCHANGED provider_vars
    \/ \E parent \in Headers, inherents \in InherentChoices : create_digest(parent, inherents)
    \/ \E parent \in Headers, inherents \in InherentChoices, intermediates \in Intermediates :
           append_block_import(parent, intermediates, inherents)
    \/ ImportBlock

SpecImport == ImportInit /\ [][ImportNext]_vars

\* the driver returns from a call with `status`; the call keeps its count of acquisitions
Returned(status) == [call EXCEPT !.at = "returned", !.status = status]

\* create_digest, line 104: the driver enters and extracts the slot number; `?` returns
\* the error before the lock is touched
create_digest_slot(parent, inherents) ==
    /\ pc[Driver] = "idle"
    /\ call.at = "returned"
    /\ IF babe_inherent_data(inherents).ok
       THEN /\ call' = [op |-> "create_digest", at |-> "lock", acquired |-> 0,
                        status |-> "none", parent |-> parent, inherents |-> inherents,
                        intermediates |-> EmptyIntermediates]
            /\ digest' = NotCalled
       ELSE /\ call' = [op |-> "create_digest", at |-> "returned", acquired |-> 0,
                        status |-> "InherentData", parent |-> parent,
                        inherents |-> inherents, intermediates |-> EmptyIntermediates]
            /\ digest' = [called |-> TRUE, parent |-> parent, inherents |-> inherents,
                          epoch_changes |-> epoch_changes,
                          result |-> create_digest_result(epoch_changes, config, keystore,
                                                          parent, inherents)]
    /\ import' = NotCalled
    /\ UNCHANGED <<config, keystore, epoch_changes, lock, new_vars>>
    /\ UNCHANGED clock_vars

\* create_digest, line 106: `let epoch_changes = self.epoch_changes.lock();` blocks until
\* the lock is free
create_digest_lock ==
    /\ call.op = "create_digest" /\ call.at = "lock"
    /\ lock = "free"
    /\ lock' = "driver"
    /\ call' = [call EXCEPT !.at = "locked", !.acquired = @ + 1]
    /\ UNCHANGED <<config, keystore, epoch_changes, digest, import, new_vars>>
    /\ UNCHANGED clock_vars

\* the lock after the guard was left held on the returns of `?`
unlock_on_success(status) == IF status = "Ok" THEN "free" ELSE "driver"

\* the guard `epoch_changes` goes out of scope on every return of create_digest
unlock(status) == "free"

\* create_digest, lines 107-155: the lookup, the epoch, the claim and the logs, under the
\* guard; the guard is dropped when the function returns, by `?` or at the end
create_digest_return ==
    /\ call.op = "create_digest" /\ call.at = "locked"
    /\ lock = "driver"
    /\ LET result == create_digest_result(epoch_changes, config, keystore,
                                          call.parent, call.inherents)
       IN  /\ digest' = [called |-> TRUE, parent |-> call.parent,
                         inherents |-> call.inherents, epoch_changes |-> epoch_changes,
                         result |-> result]
           /\ call' = Returned(result.status)
           /\ lock' = unlock(result.status)
    /\ UNCHANGED <<config, keystore, epoch_changes, import, new_vars>>
    /\ UNCHANGED clock_vars

\* append_block_import, line 164: the driver enters, for the block create_digest was
\* called for, and extracts the slot number
append_block_import_slot(parent, intermediates, inherents) ==
    /\ pc[Driver] = "idle"
    /\ call.at = "returned"
    /\ digest.called
    /\ parent = digest.parent
    /\ IF babe_inherent_data(inherents).ok
       THEN /\ call' = [op |-> "append_block_import", at |-> "lock", acquired |-> 0,
                        status |-> "none", parent |-> parent, inherents |-> inherents,
                        intermediates |-> intermediates]
            /\ import' = NotCalled
       ELSE /\ call' = [op |-> "append_block_import", at |-> "returned", acquired |-> 0,
                        status |-> "InherentData", parent |-> parent,
                        inherents |-> inherents, intermediates |-> intermediates]
            /\ import' = [called |-> TRUE, parent |-> parent, inherents |-> inherents,
                          epoch_changes |-> epoch_changes, before |-> intermediates,
                          result |-> append_block_import_result(epoch_changes, parent,
                                                                intermediates, inherents)]
    /\ UNCHANGED <<config, keystore, epoch_changes, digest, lock, new_vars>>
    /\ UNCHANGED clock_vars

\* append_block_import, line 166: `self.epoch_changes.lock()`
append_block_import_lock ==
    /\ call.op = "append_block_import" /\ call.at = "lock"
    /\ lock = "free"
    /\ lock' = "driver"
    /\ call' = [call EXCEPT !.at = "locked", !.acquired = @ + 1]
    /\ UNCHANGED <<config, keystore, epoch_changes, digest, import, new_vars>>
    /\ UNCHANGED clock_vars

\* append_block_import, lines 167-181: the lookup under the temporary guard, dropped at
\* the end of the statement on every outcome; then the insertion, which touches the
\* params alone
append_block_import_return ==
    /\ call.op = "append_block_import" /\ call.at = "locked"
    /\ lock = "driver"
    /\ LET result == append_block_import_result(epoch_changes, call.parent,
                                                call.intermediates, call.inherents)
       IN  /\ import' = [called |-> TRUE, parent |-> call.parent,
                         inherents |-> call.inherents, epoch_changes |-> epoch_changes,
                         before |-> call.intermediates, result |-> result]
           /\ call' = Returned(result.status)
           /\ lock' = unlock(result.status)
    /\ UNCHANGED <<config, keystore, epoch_changes, digest, new_vars>>
    /\ UNCHANGED clock_vars

\* another user of the SharedEpochChanges (block import) takes the lock
OtherLock ==
    /\ lock = "free"
    /\ lock' = "other"
    /\ UNCHANGED <<config, keystore, epoch_changes, digest, import, call, new_vars>>
    /\ UNCHANGED clock_vars

\* the other user changes the tree, or not, and drops its guard
OtherUnlock ==
    /\ lock = "other"
    /\ lock' = "free"
    /\ epoch_changes' \in EpochTrees(config)
    /\ UNCHANGED <<config, keystore, digest, import, call, new_vars>>
    /\ UNCHANGED clock_vars

\* the provider on a chain whose slots are one unit of time long
LockInit ==
    /\ Init
    /\ slot_duration = 1
    /\ start_time = 0

\* the driver collects inherents and makes the two calls step by step, next to another
\* user of the lock
LockNext ==
    \/ call.at = "returned" /\ FetchAdd(Driver) /\ NewBlock
    \/ PutData(Driver) /\ UNCHANGED provider_vars
    \/ BabeProvide(Driver) /\ UNCHANGED provider_vars
    \/ \E parent \in Headers, inherents \in InherentChoices :
           create_digest_slot(parent, inherents)
    \/ create_digest_lock
    \/ create_digest_return
    \/ \E parent \in Headers, inherents \in InherentChoices, intermediates \in Intermediates :
           append_block_import_slot(parent, intermediates, inherents)
    \/ append_block_import_lock
    \/ append_block_import_return
    \/ OtherLock
    \/ OtherUnlock

SpecLock == LockInit /\ [][LockNext]_vars

\* InherentDataProviders::has_provider(identifier)
has_provider(providers, identifier) ==
    \E i \in 1..Len(providers) : providers[i].id = identifier

\* InherentDataProviders::register_provider: a provider whose identifier is already
\* registered is rejected
register_provider(providers, identifier, by) ==
    IF has_provider(providers, identifier)
    THEN [ok |-> FALSE, providers |-> providers]
    ELSE [ok |-> TRUE, providers |-> Append(providers, [id |-> identifier, by |-> by])]

\* new has returned `result`
NewReturned(result) == [construction EXCEPT !.at = "returned", !.result = result]

\* new, line 80: `Config::get_or_compute(&*client)?`; the runtime supplies the Config
\* or the call fails
new_config ==
    /\ construction.at = "config"
    /\ \E available \in BOOLEAN :
           construction' = IF available
                           THEN [construction EXCEPT !.at = "clock", !.fetched = TRUE]
                           ELSE NewReturned("ConfigurationError")
    /\ UNCHANGED <<config, keystore, epoch_changes, digest, import, lock_vars, registry>>
    /\ UNCHANGED clock_vars

\* new, line 81: `SlotTimestampProvider::new(config.slot_duration)?`, lines 194-202: the
\* system time is after the UNIX epoch or the call fails
new_clock ==
    /\ construction.at = "clock"
    /\ \E after_epoch \in BOOLEAN :
           construction' = IF after_epoch
                           THEN [construction EXCEPT !.at = "register_clock"]
                           ELSE NewReturned("StringError")
    /\ UNCHANGED <<config, keystore, epoch_changes, digest, import, lock_vars, registry>>
    /\ UNCHANGED clock_vars

\* the clock's registration not checked: a rejection is passed over
new_register_clock_unchecked ==
    /\ construction.at = "register_clock"
    /\ registry' = register_provider(registry, TIMESTAMP_IDENTIFIER, "new").providers
    /\ construction' = [construction EXCEPT !.at = "register_babe"]
    /\ UNCHANGED <<config, keystore, epoch_changes, digest, import, lock_vars>>
    /\ UNCHANGED clock_vars

\* new, line 83: `provider.register_provider(timestamp_provider)?`
new_register_clock ==
    /\ construction.at = "register_clock"
    /\ LET registered == register_provider(registry, TIMESTAMP_IDENTIFIER, "new")
       IN  /\ registry' = registered.providers
           /\ construction' = IF registered.ok
                              THEN [construction EXCEPT !.at = "register_babe"]
                              ELSE NewReturned("InherentRegistrationError")
    /\ UNCHANGED <<config, keystore, epoch_changes, digest, import, lock_vars>>
    /\ UNCHANGED clock_vars

\* new, lines 84-91: `register_babe_inherent_data_provider(provider, config.slot_duration)?`,
\* then `Ok(Self { .. })`; the clock registered at line 83 stays registered on failure
new_register_babe ==
    /\ construction.at = "register_babe"
    /\ LET registered == register_provider(registry, BABE_IDENTIFIER, "new")
       IN  /\ registry' = registered.providers
           /\ construction' = IF registered.ok
                              THEN NewReturned("Ok")
                              ELSE NewReturned("InherentRegistrationError")
    /\ UNCHANGED <<config, keystore, epoch_changes, digest, import, lock_vars>>
    /\ UNCHANGED clock_vars

\* the identifiers other parts of the node register providers under
OtherIdentifiers == {TIMESTAMP_IDENTIFIER, BABE_IDENTIFIER, "auraslot", "uncles00"}

\* another part of the node registers a provider with the same InherentDataProviders
OtherRegister(identifier) ==
    /\ register_provider(registry, identifier, "other").ok
    /\ registry' = register_provider(registry, identifier, "other").providers
    /\ UNCHANGED <<config, keystore, epoch_changes, digest, import, lock_vars, construction>>
    /\ UNCHANGED clock_vars

\* before new is called: the runtime's Config and the system time are what they will
\* be read as, nothing is registered
NewInit ==
    /\ ClockInit
    /\ config = [slot_duration |-> slot_duration,
                 genesis_authorities |-> <<[id |-> "Alice", weight |-> 1]>>,
                 randomness |-> 1]
    /\ keystore = {"Alice"}
    /\ epoch_changes = [inner |-> {}, epochs |-> {}]
    /\ digest = NotCalled
    /\ import = NotCalled
    /\ lock = "free"
    /\ call = NoCall
    /\ registry = <<>>
    /\ construction = [at |-> "config", fetched |-> FALSE, result |-> "none"]

NewNext ==
    \/ new_config
    \/ new_clock
    \/ new_register_clock
    \/ new_register_babe
    \/ \E identifier \in OtherIdentifiers : OtherRegister(identifier)

SpecNew == NewInit /\ [][NewNext]_vars

(***************************************************************************)
(* The slot clock.                                                         *)
(***************************************************************************)
Calls == 1..Len(calls)
Written(k) == Unwrap(calls[k].written)
AllWritten == \A k \in Calls : IsSome(calls[k].written)
\* the k-th value of the arithmetic progression, in the integers
Exact(k) == start_time + (k - 1) * slot_duration

\* C1 as stated, for a positive slot duration: in sequential use the k-th call writes
\* exactly T0 + k*d (k from 0), and the values written are strictly increasing
C1_AsStated ==
    (~overlap /\ slot_duration > 0) =>
        \A k \in Calls : IsSome(calls[k].written) =>
            /\ Written(k) = Exact(k)
            /\ \A j \in 1..(k - 1) : IsSome(calls[j].written) => Written(j) < Written(k)

\* C1: in sequential use the k-th call writes (T0 + k*d) modulo the width of the counter:
\* the first call writes T0, every later call the previous value plus d, wrapping;
\* the values are strictly increasing as long as d > 0 and T0 + k*d has not wrapped
C1_SequentialClock ==
    ~overlap =>
        \A k \in Calls : IsSome(calls[k].written) =>
            /\ Written(k) = Exact(k) % Modulus
            /\ k = 1 => Written(k) = start_time
            /\ (k > 1 /\ IsSome(calls[k - 1].written)) =>
                   Written(k) = WrappingAdd(Written(k - 1), slot_duration)
            /\ (slot_duration > 0 /\ Exact(k) < Modulus) =>
                   \A j \in 1..(k - 1) : IsSome(calls[j].written) => Written(j) < Written(k)

\* three sequential calls have written their values, the third after the counter wrapped
C1_Witness ==
    /\ ~overlap
    /\ Len(calls) >= 3
    /\ AllWritten
    /\ slot_duration > 0
    /\ Exact(3) >= Modulus

AllCompleted == \A t \in Threads : pc[t] # "fetched"

\* C2 as stated, for a positive slot duration: after N completed calls, in any
\* interleaving, the values returned are exactly T0 + k*d for k < N, the counter is
\* T0 + N*d, and no two calls got the same value
C2_AsStated ==
    slot_duration > 0 =>
        /\ AllCompleted =>
            /\ \A k \in Calls : calls[k].written = Some(Exact(k))
            /\ time = Exact(Len(calls) + 1)
        /\ \A j, k \in Calls : j # k => calls[j].ret # calls[k].ret

\* C2: in any interleaving no update is lost: after N completed calls the values
\* returned are exactly (T0 + k*d) mod 2^64 for k < N, each written by the call that
\* fetched it, and the counter is (T0 + N*d) mod 2^64; no two calls get the same value
\* as long as d > 0 and T0 + k*d has not wrapped
C2_ConcurrentClock ==
    /\ \A k \in Calls :
        /\ calls[k].ret = Exact(k) % Modulus
        /\ IsSome(calls[k].written) => Written(k) = calls[k].ret
    /\ \A t \in Threads : pc[t] = "fetched" => duration[t] = calls[ticket[t]].ret
    /\ AllCompleted =>
        /\ \A k \in Calls : calls[k].written = Some(Exact(k) % Modulus)
        /\ time = Exact(Len(calls) + 1) % Modulus
    /\ (slot_duration > 0 /\ Exact(Len(calls)) < Modulus) =>
           \A j, k \in Calls : j # k => calls[j].ret # calls[k].ret

\* two calls overlapped and all calls have completed
C2_Witness ==
    /\ overlap
    /\ AllCompleted
    /\ Len(calls) >= 2
    /\ slot_duration > 0

SlotNo(k) == Unwrap(calls[k].slot)

\* C3 as stated: each collection's slot number is strictly greater than that of the
\* collection before it
C3_AsStated ==
    \A j, k \in Calls :
        (j < k /\ IsSome(calls[j].slot) /\ IsSome(calls[k].slot)) => SlotNo(j) < SlotNo(k)

\* C3: the slot number of the k-th collection is ((T0 + k*d) mod 2^64) / d; as long as
\* T0 + k*d has not wrapped it is T0/d + k, one more than that of the collection
\* before it, so strictly greater than that of every earlier collection
C3_FreshSlot ==
    \A k \in Calls : IsSome(calls[k].slot) =>
        /\ SlotNo(k) = (Exact(k) % Modulus) \div slot_duration
        /\ Exact(k) < Modulus =>
            /\ SlotNo(k) = (start_time \div slot_duration) + (k - 1)
            /\ \A j \in 1..(k - 1) : IsSome(calls[j].slot) => SlotNo(j) < SlotNo(k)

\* three collections have their slots, none after a wrap, the last two back to back
C3_Witness ==
    /\ Len(calls) >= 3
    /\ \A k \in 1..3 : IsSome(calls[k].slot)
    /\ Exact(3) < Modulus
    /\ SlotNo(3) = SlotNo(2) + 1

(***************************************************************************)
(* The consensus data provider.                                            *)
(***************************************************************************)
DigestOk == digest.called /\ digest.result.status = "Ok"
Logs == digest.result.logs
\* the steps of create_digest, taken again on its arguments and on the tree it saw
DigestSlot == babe_inherent_data(digest.inherents)
DigestFound ==
    epoch_descriptor_for_child_of(digest.epoch_changes, digest.parent.hash,
                                  digest.parent.number, DigestSlot.slot_number)
DigestEpoch == viable_epoch(digest.epoch_changes, config, Unwrap(DigestFound.descriptor))
DigestClaim == claim_slot(DigestSlot.slot_number, Unwrap(DigestEpoch), keystore)
\* the same for append_block_import
ImportSlot == babe_inherent_data(import.inherents)
ImportFound ==
    epoch_descriptor_for_child_of(import.epoch_changes, import.parent.hash,
                                  import.parent.number, ImportSlot.slot_number)

\* C4: a digest returned by create_digest starts with the one PreRuntime entry under
\* the BABE engine id; it has one entry when claim_slot gave a claim, and two, the
\* second a Consensus entry with NextEpochData, exactly when claim_slot gave none
C4_DigestShape ==
    DigestOk =>
        /\ Len(Logs) \in {1, 2}
        /\ Logs[1].item = "PreRuntime" /\ Logs[1].engine = BABE_ENGINE_ID
        /\ \A i \in 2..Len(Logs) : Logs[i].item # "PreRuntime"
        /\ IsSome(DigestClaim) => Len(Logs) = 1
        /\ Len(Logs) = 2 <=> ~IsSome(DigestClaim)
        /\ Len(Logs) = 2 =>
            /\ Logs[2].item = "Consensus" /\ Logs[2].engine = BABE_ENGINE_ID
            /\ Decode(Logs[2].data).variant = "NextEpochData"

\* create_digest returned a digest on the fallback path
C4_Witness == DigestOk /\ ~IsSome(DigestClaim) /\ Len(Logs) = 2

\* C5: when claim_slot gives no claim the predigest is SecondaryPlain with authority
\* index 0 and the slot number of the inherents, and NextEpochData carries the resolved
\* epoch's randomness and the single authority Alice with weight 1000
C5_FallbackContent ==
    (DigestOk /\ ~IsSome(DigestClaim)) =>
        /\ Decode(Logs[1].data) =
               [variant |-> "SecondaryPlain",
                slot_number |-> Unwrap(digest.inherents.babeslot),
                authority_index |-> 0]
        /\ Decode(Logs[2].data).randomness = Unwrap(DigestEpoch).randomness
        /\ Decode(Logs[2].data).authorities = <<[id |-> "Alice", weight |-> 1000]>>

\* the fallback was taken under an epoch whose randomness and authorities are not
\* those of genesis, with a keystore that does not hold Alice's key
C5_Witness ==
    /\ DigestOk /\ ~IsSome(DigestClaim)
    /\ Unwrap(DigestEpoch).randomness # config.randomness
    /\ Unwrap(DigestEpoch).authorities # config.genesis_authorities
    /\ "Alice" \notin keystore

PairedCalls ==
    /\ digest.called /\ import.called
    /\ import.parent = digest.parent
    /\ import.inherents = digest.inherents
    /\ import.epoch_changes = digest.epoch_changes

\* C6: for the same parent and inherent data, and the epoch tree unchanged between the
\* calls, append_block_import inserts the descriptor create_digest resolved, and it
\* succeeds exactly when create_digest resolved one
C6_SameDescriptor ==
    PairedCalls =>
        /\ import.result.status = "Ok" =>
               import.result.intermediates.babe_intermediate = digest.result.descriptor
        /\ import.result.status = "Ok" <=> IsSome(digest.result.descriptor)

\* the pair resolved a descriptor signalled in the tree
C6_Witness ==
    /\ PairedCalls
    /\ import.result.status = "Ok"
    /\ Unwrap(digest.result.descriptor).kind = "Signaled"
    /\ import.before.babe_intermediate # import.result.intermediates.babe_intermediate

GenesisBootstrap ==
    /\ digest.called
    /\ digest.epoch_changes = [inner |-> {}, epochs |-> {}]
    /\ digest.parent = GenesisHeader
    /\ DigestSlot.ok
LocalKeyIsGenesisAuthority ==
    \E i \in 1..Len(config.genesis_authorities) : config.genesis_authorities[i].id \in keystore
ClaimedDigest ==
    /\ Len(Logs) = 1
    /\ Logs[1].item = "PreRuntime"
FallbackDigest(randomness) ==
    /\ Len(Logs) = 2
    /\ Logs[1].item = "PreRuntime" /\ Decode(Logs[1].data).variant = "SecondaryPlain"
    /\ Logs[2].item = "Consensus" /\ Decode(Logs[2].data).variant = "NextEpochData"
    /\ Decode(Logs[2].data).randomness = randomness

\* C7 as stated: with an empty tree and the genesis parent, create_digest resolves
\* epoch zero from Config and returns one PreRuntime entry if the local key matches a
\* genesis authority, otherwise the fallback with the genesis randomness
C7_AsStated ==
    GenesisBootstrap =>
        /\ digest.result.status = "Ok"
        /\ digest.result.epoch = Some(EpochGenesis(config, DigestSlot.slot_number))
        /\ IF LocalKeyIsGenesisAuthority
           THEN ClaimedDigest
           ELSE FallbackDigest(config.randomness)

\* C7: with an empty tree, the genesis parent and a slot number in the inherents,
\* create_digest resolves epoch zero from Config and returns one PreRuntime entry if
\* claim_slot gives a claim under epoch zero, which takes a local key among the genesis
\* authorities, otherwise the fallback with the genesis randomness
C7_GenesisBootstrap ==
    GenesisBootstrap =>
        /\ digest.result.status = "Ok"
        /\ digest.result.epoch = Some(EpochGenesis(config, DigestSlot.slot_number))
        /\ IF IsSome(claim_slot(DigestSlot.slot_number,
                                EpochGenesis(config, DigestSlot.slot_number), keystore))
           THEN ClaimedDigest /\ LocalKeyIsGenesisAuthority
           ELSE FallbackDigest(config.randomness)

\* the bootstrap ended in the fallback although a local key is a genesis authority
C7_Witness ==
    /\ GenesisBootstrap
    /\ LocalKeyIsGenesisAuthority
    /\ FallbackDigest(config.randomness)

\* C8: when the lookup gives no descriptor, create_digest fails with the invalid
\* authority set error and returns no digest, and append_block_import fails with it
\* and leaves the intermediates as they were
C8_NoDescriptor ==
    /\ (digest.called /\ DigestSlot.ok /\ DigestFound.status = "None") =>
           /\ digest.result.status = "InvalidAuthoritiesSet"
           /\ digest.result.logs = <<>>
    /\ (import.called /\ ImportSlot.ok /\ ImportFound.status = "None") =>
           /\ import.result.status = "InvalidAuthoritiesSet"
           /\ import.result.intermediates = import.before

\* both calls met a lookup without a descriptor, the params holding entries already
C8_Witness ==
    /\ digest.called /\ DigestSlot.ok /\ DigestFound.status = "None"
    /\ import.called /\ ImportSlot.ok /\ ImportFound.status = "None"
    /\ import.before # EmptyIntermediates

\* C9: every error of create_digest is returned as that error with no digest, and the
\* fallback digest is returned only when the slot number was extracted, the descriptor
\* and the epoch were resolved and claim_slot gave no claim
C9_FallbackIsNoRecovery ==
    digest.called =>
        /\ ~DigestSlot.ok => digest.result.status = "InherentData"
        /\ (DigestSlot.ok /\ DigestFound.status = "Err") => digest.result.status = "StringError"
        /\ (DigestSlot.ok /\ DigestFound.status = "None") =>
               digest.result.status = "InvalidAuthoritiesSet"
        /\ (DigestSlot.ok /\ DigestFound.status = "Some" /\ ~IsSome(DigestEpoch)) =>
               digest.result.status = "InvalidAuthoritiesSet"
        /\ digest.result.status # "Ok" => Logs = <<>>
        /\ Len(Logs) = 2 =>
               /\ DigestSlot.ok
               /\ DigestFound.status = "Some"
               /\ IsSome(DigestEpoch)
               /\ ~IsSome(DigestClaim)

\* create_digest found a descriptor but no viable epoch, and returned the error
C9_Witness ==
    /\ digest.called
    /\ DigestSlot.ok /\ DigestFound.status = "Some" /\ ~IsSome(DigestEpoch)
    /\ digest.result.status = "InvalidAuthoritiesSet"

\* a step that is a call of create_digest or of append_block_import
ProviderCall ==
    \/ digest'.called /\ digest' # digest
    \/ import'.called /\ import' # import

\* C10: a call of create_digest or append_block_import leaves the epoch tree, the
\* Config, the keystore and the clock's counter as they were; a successful
\* append_block_import sets the entry under the intermediate key to the descriptor and
\* leaves the other entries, a failing one leaves the intermediates as they were
C10_Frame ==
    /\ [][ProviderCall => UNCHANGED <<epoch_changes, config, keystore, time, slot_duration>>]_vars
    /\ [](import.called =>
            IF import.result.status = "Ok"
            THEN /\ import.result.intermediates.babe_intermediate = import.result.descriptor
                 /\ import.result.intermediates.other = import.before.other
            ELSE import.result.intermediates = import.before)

\* a successful append_block_import replaced the entry under the intermediate key in
\* params that held another entry too
C10_Witness ==
    /\ import.called /\ import.result.status = "Ok"
    /\ IsSome(import.before.other)
    /\ import.before.babe_intermediate # import.result.intermediates.babe_intermediate

\* the epoch create_digest resolved is one a fallback block announced
AnnouncedByFallback ==
    /\ DigestOk
    /\ Unwrap(digest.result.epoch).epoch_index > 0
    /\ Unwrap(digest.result.epoch).authorities = <<[id |-> Alice, weight |-> FallbackWeight]>>

\* C11: once a block built on the fallback path is imported, create_digest for a slot
\* of the epoch it announced takes the branch of the successful claim: one entry
C11_ClaimsAfterFallback ==
    AnnouncedByFallback => (Len(Logs) = 1 /\ IsSome(digest.result.claim))

\* C12 as stated: for the same parent, inherents and tree, append_block_import fails
\* exactly when create_digest fails, and with the same error kind
C12_AsStated ==
    PairedCalls => import.result.status = digest.result.status

\* C12: for the same parent, inherents and tree, the two calls fail alike on the slot
\* extraction and on the descriptor lookup; append_block_import does not resolve the
\* epoch, so it succeeds whenever the lookup gave a descriptor, including when
\* create_digest fails because no viable epoch exists
C12_LookupParity ==
    PairedCalls =>
        /\ import.result.status # "Ok" => import.result.status = digest.result.status
        /\ IsSome(digest.result.descriptor) => import.result.status = "Ok"
        /\ (import.result.status = "Ok" /\ digest.result.status # "Ok") =>
               /\ digest.result.status = "InvalidAuthoritiesSet"
               /\ IsSome(digest.result.descriptor)
               /\ ~IsSome(DigestEpoch)
               /\ import.result.intermediates.babe_intermediate = digest.result.descriptor

\* create_digest reported that no viable epoch exists and append_block_import attached
\* the descriptor
C12_Witness ==
    /\ PairedCalls
    /\ digest.result.status = "InvalidAuthoritiesSet"
    /\ import.result.status = "Ok"
    /\ IsSome(import.result.intermediates.babe_intermediate)

(***************************************************************************)
(* The lock of the epoch tree.                                             *)
(***************************************************************************)
\* the driver is outside create_digest and append_block_import
Outside == call.at = "returned"

\* C13: each call takes the lock of the epoch tree at most once and no longer holds it
\* when it has returned, whatever it returned; the lock is not held between the calls;
\* a call that fails on the slot extraction never took it; the driver holds the lock
\* only at a point from which it returns without waiting for anything
C13_LockDiscipline ==
    /\ call.acquired <= 1
    /\ Outside => lock # "driver"
    /\ (Outside /\ call.status = "InherentData") => call.acquired = 0
    /\ (Outside /\ call.op # "none" /\ call.status # "InherentData") => call.acquired = 1
    /\ lock = "driver" =>
           /\ call.at = "locked"
           /\ ENABLED (create_digest_return \/ append_block_import_return)

\* create_digest returned an error from under the lock, and another user holds the lock
C13_Witness ==
    /\ call.op = "create_digest"
    /\ Outside
    /\ call.status = "InvalidAuthoritiesSet"
    /\ call.acquired = 1
    /\ lock = "other"

\* the two calls were made for the same parent with the same inherent data
SameInputs ==
    /\ digest.called /\ import.called
    /\ import.parent = digest.parent
    /\ import.inherents = digest.inherents

\* the lookup of append_block_import in the tree as it is when the driver holds the lock
CurrentFound ==
    epoch_descriptor_for_child_of(epoch_changes, call.parent.hash, call.parent.number,
                                  babe_inherent_data(call.inherents).slot_number)

\* C14: append_block_import resolves against the tree as it is when it runs, whatever
\* tree create_digest saw: it succeeds with the descriptor of that lookup or fails with
\* its error; with the same inputs the two calls disagree on the descriptor only when
\* the tree was changed between them
C14_TwoPhaseRead ==
    /\ [][append_block_import_return =>
            /\ import'.epoch_changes = epoch_changes
            /\ import'.result.descriptor = CurrentFound.descriptor
            /\ import'.result.status =
                   IF IsSome(CurrentFound.descriptor) THEN "Ok"
                   ELSE lookup_error(CurrentFound.status)]_vars
    /\ []((SameInputs /\ import.result.descriptor # digest.result.descriptor) =>
            import.epoch_changes # digest.epoch_changes)
    /\ []((SameInputs /\ import.epoch_changes = digest.epoch_changes) =>
            (digest.result.status = "Ok" => import.result.status = "Ok"))

\* the tree was changed between the calls: create_digest built a digest under one
\* descriptor and append_block_import succeeded attaching another
C14_Witness ==
    /\ SameInputs
    /\ digest.result.status = "Ok"
    /\ import.result.status = "Ok"
    /\ import.result.intermediates.babe_intermediate # digest.result.descriptor
    /\ import.epoch_changes # digest.epoch_changes

\* C15: given the same inherent data, create_digest and append_block_import use the
\* same slot number, the one in the inherent data, each for its lookup; neither call
\* moves the clock; the SecondaryPlain predigest carries that slot number
C15_SameSlot ==
    /\ [][ProviderCall => /\ time' = time
                          /\ calls' = calls
                          /\ inherent_data' = inherent_data]_vars
    /\ [](SameInputs =>
            /\ import.result.slot_number = digest.result.slot_number
            /\ IsSome(digest.result.slot_number) =>
                   /\ digest.result.slot_number = digest.inherents.babeslot
                   /\ digest.result.descriptor = DigestFound.descriptor
                   /\ import.result.descriptor = ImportFound.descriptor)
    /\ []((DigestOk /\ ~IsSome(digest.result.claim)) =>
            /\ Decode(Logs[1].data).variant = "SecondaryPlain"
            /\ Some(Decode(Logs[1].data).slot_number) = digest.result.slot_number
            /\ import.called /\ import.inherents = digest.inherents =>
                   Some(Decode(Logs[1].data).slot_number) = import.result.slot_number)

\* a fallback digest for a slot after the first, and append_block_import given the same
\* inherent data succeeded
C15_Witness ==
    /\ SameInputs
    /\ DigestOk /\ ~IsSome(digest.result.claim)
    /\ import.result.status = "Ok"
    /\ Decode(Logs[1].data).slot_number > 0
    /\ import.result.slot_number = Some(Decode(Logs[1].data).slot_number)

(***************************************************************************)
(* Construction.                                                           *)
(***************************************************************************)
\* the identifiers new has registered, in the order of registration
RegisteredByNew ==
    LET mine == SelectSeq(registry, LAMBDA p : p.by = "new")
    IN  [i \in 1..Len(mine) |-> mine[i].id]

\* C16: new registers nothing before the Config is fetched, and nothing at all when the
\* fetch fails; it registers the clock first and the slot provider second; it returns a
\* provider only with the Config fetched and both registered, and an error when a
\* registration was rejected; before it returns, and when it fails, there is no provider
C16_Construction ==
    /\ ~construction.fetched => RegisteredByNew = <<>>
    /\ construction.result = "ConfigurationError" =>
           ~construction.fetched /\ RegisteredByNew = <<>>
    /\ RegisteredByNew \in {<<>>, <<TIMESTAMP_IDENTIFIER>>,
                            <<TIMESTAMP_IDENTIFIER, BABE_IDENTIFIER>>}
    /\ construction.result = "Ok" <=>
           /\ construction.at = "returned"
           /\ construction.fetched
           /\ RegisteredByNew = <<TIMESTAMP_IDENTIFIER, BABE_IDENTIFIER>>
    /\ construction.result = "InherentRegistrationError" =>
           /\ construction.fetched
           /\ Len(RegisteredByNew) < 2
           /\ \E i \in 1..Len(registry) :
                  /\ registry[i].by = "other"
                  /\ registry[i].id \in {TIMESTAMP_IDENTIFIER, BABE_IDENTIFIER}
    /\ construction.at = "returned" <=> construction.result # "none"

\* the second registration was rejected: new failed after it registered the clock
C16_Witness ==
    /\ construction.at = "returned"
    /\ construction.result = "InherentRegistrationError"
    /\ RegisteredByNew = <<TIMESTAMP_IDENTIFIER>>

====
